---- MODULE Spec2Model ----
(***************************************************************************)
(* Model of notion_import.go: page acquisition (cache first, then the      *)
(* remote source), extraction of the metadata header from the leading      *)
(* blocks of a page, the deduplicating traversal of importNotion, and the  *)
(* index listing of genNotionBasic / genIndexHTML.                         *)
(*                                                                         *)
(* Strings are sequences of one-character strings, so that TrimSpace,      *)
(* SplitN, Split, ToLower, EqualFold and normalizeID are computed.         *)
(***************************************************************************)
EXTENDS Integers, Sequences, FiniteSets, TLC

(***************************************************************************)
(* Bounds of the model.                                                    *)
(***************************************************************************)
\* longest block sequence given to extractMetadata in SpecExtract
MaxLen == 4
\* number of runs of importNotion over the same cache and log directories
MaxRuns == 2
\* largest number of documents handed to genNotionBasic in SpecIndex
MaxDocs == 3

(***************************************************************************)
(* Strings (package strings).                                              *)
(***************************************************************************)
Upper == <<"A","B","C","D","E","F","G","H","I","J","K","L","M",
           "N","O","P","Q","R","S","T","U","V","W","X","Y","Z">>
Lower == <<"a","b","c","d","e","f","g","h","i","j","k","l","m",
           "n","o","p","q","r","s","t","u","v","w","x","y","z">>
Digits == <<"0","1","2","3","4","5","6","7","8","9">>

IsSpace(c) == c \in {" ", "\t", "\n", "\r"}

ToLowerChar(c) ==
    IF \E i \in 1..Len(Upper) : Upper[i] = c
    THEN Lower[CHOOSE i \in 1..Len(Upper) : Upper[i] = c]
    ELSE c

\* strings.ToLower
ToLower(s) == [i \in 1..Len(s) |-> ToLowerChar(s[i])]

\* strings.EqualFold
EqualFold(s, t) == ToLower(s) = ToLower(t)

RECURSIVE TrimLeft(_)
TrimLeft(s) ==
    IF s # <<>> /\ IsSpace(Head(s)) THEN TrimLeft(Tail(s)) ELSE s

RECURSIVE TrimRight(_)
TrimRight(s) ==
    IF s # <<>> /\ IsSpace(s[Len(s)])
    THEN TrimRight(SubSeq(s, 1, Len(s) - 1))
    ELSE s

\* strings.TrimSpace
TrimSpace(s) == TrimRight(TrimLeft(s))

\* strings.Index for a one-character separator; 0 when absent
RECURSIVE IndexFrom(_, _, _)
IndexFrom(s, c, i) ==
    IF i > Len(s) THEN 0
    ELSE IF s[i] = c THEN i
    ELSE IndexFrom(s, c, i + 1)

\* strings.SplitN(s, sep, 2)
SplitN2(s, c) ==
    LET i == IndexFrom(s, c, 1) IN
    IF i = 0 THEN <<s>>
    ELSE <<SubSeq(s, 1, i - 1), SubSeq(s, i + 1, Len(s))>>

\* strings.Split(s, sep)
RECURSIVE Split(_, _)
Split(s, c) ==
    LET i == IndexFrom(s, c, 1) IN
    IF i = 0 THEN <<s>>
    ELSE <<SubSeq(s, 1, i - 1)>> \o Split(SubSeq(s, i + 1, Len(s)), c)

\* strings.Replace(s, "-", "", -1)
RECURSIVE RemoveAll(_, _)
RemoveAll(s, c) ==
    IF s = <<>> THEN <<>>
    ELSE IF Head(s) = c THEN RemoveAll(Tail(s), c)
    ELSE <<Head(s)>> \o RemoveAll(Tail(s), c)

\* faulty variant of normalizeID: only the first hyphen is removed
normalizeIDFirst(s) ==
    LET i == IndexFrom(s, "-", 1) IN
    IF i = 0 THEN s ELSE SubSeq(s, 1, i - 1) \o SubSeq(s, i + 1, Len(s))

\* normalizeID: strings.Replace(s, "-", "", -1)
normalizeID(s) == RemoveAll(s, "-")

(***************************************************************************)
(* time.Parse(time.RFC3339, s) on the UTC form YYYY-MM-DDThh:mm:ssZ.  An   *)
(* instant is the tuple <<Y, M, D, h, m, s>>; the zero time.Time is year 1.*)
(* Every timestamp text of the model is either of this form or has another *)
(* length, so numeric zone offsets never reach the operator.               *)
(***************************************************************************)
ZeroTime == <<1, 1, 1, 0, 0, 0>>

IsDigit(c) == \E i \in 1..10 : Digits[i] = c
DigitVal(c) == (CHOOSE i \in 1..10 : Digits[i] = c) - 1

Num2(s, i) == DigitVal(s[i]) * 10 + DigitVal(s[i + 1])
Num4(s, i) == Num2(s, i) * 100 + Num2(s, i + 2)

ParseShapeOK(s) ==
    /\ Len(s) = 20
    /\ \A i \in {1,2,3,4,6,7,9,10,12,13,15,16,18,19} : IsDigit(s[i])
    /\ s[5] = "-" /\ s[8] = "-" /\ s[11] = "T"
    /\ s[14] = ":" /\ s[17] = ":" /\ s[20] = "Z"

ParseRangeOK(s) ==
    /\ Num2(s, 6) \in 1..12
    /\ Num2(s, 9) \in 1..31
    /\ Num2(s, 12) \in 0..23
    /\ Num2(s, 15) \in 0..59
    /\ Num2(s, 18) \in 0..59

ParseOK(s) == ParseShapeOK(s) /\ ParseRangeOK(s)

ParseTime(s) ==
    <<Num4(s, 1), Num2(s, 6), Num2(s, 9), Num2(s, 12), Num2(s, 15), Num2(s, 18)>>

\* d1.Sub(d2) > 0
RECURSIVE AfterFrom(_, _, _)
AfterFrom(d1, d2, i) ==
    IF i > 6 THEN FALSE
    ELSE IF d1[i] # d2[i] THEN d1[i] > d2[i]
    ELSE AfterFrom(d1, d2, i + 1)

After(d1, d2) == AfterFrom(d1, d2, 1)

(***************************************************************************)
(* Blocks of a page (notionapi.Block) and the texts the model uses.         *)
(***************************************************************************)
KeyTags == <<"t","a","g","s">>
KeyID == <<"i","d">>
KeyDate == <<"d","a","t","e">>
KeyCreatedAt == <<"c","r","e","a","t","e","d","a","t">>
KeyUpdatedAt == <<"u","p","d","a","t","e","d","a","t">>
KeyStatus == <<"s","t","a","t","u","s">>
KeyDescription == <<"d","e","s","c","r","i","p","t","i","o","n">>
KeyHeaderImage == <<"h","e","a","d","e","r","i","m","a","g","e">>
KeyCollection == <<"c","o","l","l","e","c","t","i","o","n">>

StrHidden == <<"h","i","d","d","e","n">>
StrNotImportant == <<"n","o","t","i","m","p","o","r","t","a","n","t">>
StrGo == <<"g","o">>
StrWeb == <<"w","e","b">>

TxtDate == <<"D","a","t","e",":"," ","2","0","2","0","-","0","1","-","0","1",
             "T","0","0",":","0","0",":","0","0","Z">>
TxtTags == <<"T","a","g","s",":"," ","g","o",","," ","w","e","b">>
TxtStatusHidden == <<"S","t","a","t","u","s",":"," ","h","i","d","d","e","n">>
TxtFoo == <<"F","o","o",":"," ","b","a","r">>
TxtBadDate == <<"D","a","t","e",":"," ","2","0","2","0","-","0","1","-","0","1">>
TxtBlank == <<" ">>
TxtHello == <<"h","e","l","l","o">>

NoID == <<>>

\* a text block with one inline run
TextBlock(txt, isPlain) ==
    [type |-> "text", id |-> NoID, inline |-> <<[text |-> txt, plain |-> isPlain]>>]
\* a text block without inline content
EmptyTextBlock == [type |-> "text", id |-> NoID, inline |-> <<>>]
\* a page-reference block (notionapi.BlockPage)
PageBlock(ref) == [type |-> "page", id |-> ref, inline |-> <<>>]
\* a block of any other type
OtherBlock == [type |-> "other", id |-> NoID, inline |-> <<>>]

(***************************************************************************)
(* Metadata and extractMetadata.                                           *)
(***************************************************************************)
EmptyMetadata ==
    [ID |-> <<>>, Tags |-> <<>>,
     DateStr |-> <<>>, CreatedAtStr |-> <<>>, UpdatedAtStr |-> <<>>,
     Date |-> ZeroTime, CreatedAt |-> ZeroTime, UpdatedAt |-> ZeroTime,
     Description |-> <<>>, HeaderImage |-> <<>>, Collection |-> <<>>,
     Status |-> <<>>]

IsHidden(m) == EqualFold(m.Status, StrHidden)

IsNotImportant(m) == EqualFold(m.Status, StrNotImportant)

\* results of extractMetadata: a normal return, or the panic that ends the run
Returned(blocks, res) == [outcome |-> "ok", blocks |-> blocks, meta |-> res]
Panicked(kind, blocks, res) == [outcome |-> kind, blocks |-> blocks, meta |-> res]

\* decodeDate: the string is stored, then parsed; a parse error panics
decodeDate(res, strField, timeField, s) ==
    LET stored == [res EXCEPT ![strField] = s] IN
    IF ParseOK(s)
    THEN [ok |-> TRUE, res |-> [stored EXCEPT ![timeField] = ParseTime(s)]]
    ELSE [ok |-> FALSE, res |-> stored]

\* the tags case: split on commas, trim every tag
SplitTags(val) ==
    LET parts == Split(val, ",") IN [i \in 1..Len(parts) |-> TrimSpace(parts[i])]

\* the switch on the key; kind is "ok", "date" (decodeDate panicked) or
\* "unsupported" (the default case)
ApplyKey(res, key, val) ==
    CASE key = KeyTags -> [kind |-> "ok", res |-> [res EXCEPT !.Tags = SplitTags(val)]]
      [] key = KeyID -> [kind |-> "ok", res |-> [res EXCEPT !.ID = val]]
      [] key = KeyDate ->
            LET d == decodeDate(res, "DateStr", "Date", val) IN
            [kind |-> IF d.ok THEN "ok" ELSE "date", res |-> d.res]
      [] key = KeyCreatedAt ->
            LET d == decodeDate(res, "CreatedAtStr", "CreatedAt", val) IN
            [kind |-> IF d.ok THEN "ok" ELSE "date", res |-> d.res]
      [] key = KeyUpdatedAt ->
            LET d == decodeDate(res, "UpdatedAtStr", "UpdatedAt", val) IN
            [kind |-> IF d.ok THEN "ok" ELSE "date", res |-> d.res]
      [] key = KeyStatus -> [kind |-> "ok", res |-> [res EXCEPT !.Status = val]]
      [] key = KeyDescription -> [kind |-> "ok", res |-> [res EXCEPT !.Description = val]]
      [] key = KeyHeaderImage -> [kind |-> "ok", res |-> [res EXCEPT !.HeaderImage = val]]
      [] key = KeyCollection -> [kind |-> "ok", res |-> [res EXCEPT !.Collection = val]]
      [] OTHER -> [kind |-> "unsupported", res |-> res]

\* faulty variant of StopNoInline: the block without inline content is left
\* in the content
StopNoInlineKeep(blocks, res) == Returned(blocks, res)

\* the block has no inline content: it is dropped and the loop ends
StopNoInline(blocks, res) == Returned(Tail(blocks), res)

\* faulty variant of StopNotPlain: the formatted block is dropped like a header line
StopNotPlainDrop(blocks, res) == Returned(Tail(blocks), res)

\* the first run is not plain: the loop ends, the block stays
StopNotPlain(blocks, res) == Returned(blocks, res)

\* the trimmed text is empty; rest is the sequence after the block itself
\* was dropped.  blocks[1:] of an empty slice is a run-time panic.
StopBlank(rest, res) ==
    IF rest = <<>> THEN Panicked("bounds", rest, res)
    ELSE Returned(Tail(rest), res)

\* the text has no colon; rest is the sequence after the block was dropped
StopNoColon(rest, res) == Returned(rest, res)

\* the loop of extractMetadata
RECURSIVE ExtractLoop(_, _)
ExtractLoop(blocks, res) ==
    IF blocks = <<>> THEN Returned(blocks, res)
    ELSE LET block == Head(blocks) IN
    IF block.type # "text" THEN Returned(blocks, res)
    ELSE IF Len(block.inline) = 0 THEN StopNoInline(blocks, res)
    ELSE LET inline == block.inline[1] IN
    IF ~inline.plain THEN StopNotPlain(blocks, res)
    ELSE LET rest == Tail(blocks)
             s == TrimSpace(inline.text) IN
    IF s = <<>> THEN StopBlank(rest, res)
    ELSE LET parts == SplitN2(s, ":") IN
    IF Len(parts) # 2 THEN StopNoColon(rest, res)
    ELSE LET key == ToLower(TrimSpace(parts[1]))
             val == TrimSpace(parts[2])
             r == ApplyKey(res, key, val) IN
    IF r.kind # "ok" THEN Panicked(r.kind, blocks, r.res)
    ELSE ExtractLoop(rest, r.res)

\* extractMetadata on the content of a page
extractMetadata(content) == ExtractLoop(content, EmptyMetadata)

(***************************************************************************)
(* Identifiers, page trees and the remote source.                          *)
(***************************************************************************)
IdA == <<"A","A","A","A">>
IdB == <<"B","B","B","B">>
IDs == {IdA, IdB}

\* the hyphenated form of a compact identifier
Hyphenated(id) == SubSeq(id, 1, 2) \o <<"-">> \o SubSeq(id, 3, Len(id))

Other(id) == IF id = IdA THEN IdB ELSE IdA

IndexName == <<"i","n","d","e","x">>

\* the trees a page of the source can have: references to the other page
\* and to itself in both forms of the identifier, with and without a header
PageTrees(id) ==
    { <<PageBlock(Hyphenated(id)), PageBlock(Other(id)), PageBlock(Hyphenated(Other(id)))>>,
      <<TextBlock(TxtDate, TRUE), TextBlock(TxtTags, TRUE), TextBlock(TxtBlank, TRUE),
        PageBlock(Other(id))>>,
      <<TextBlock(TxtStatusHidden, TRUE)>>,
      <<TextBlock(TxtFoo, TRUE), PageBlock(Other(id))>>,
      <<TextBlock(TxtBadDate, TRUE)>> }

\* what notionapi.GetPageInfo returns for an identifier when it succeeds
PageInfoOf(id, tree) == [nil |-> FALSE, ID |-> Hyphenated(id), Content |-> tree]
NilPageInfo == [nil |-> TRUE, ID |-> NoID, Content |-> <<>>]

Worlds ==
    { [id \in IDs |-> PageInfoOf(id, IF id = IdA THEN ta ELSE tb)] :
        ta \in PageTrees(IdA), tb \in PageTrees(IdB) }

\* extractMetadata on the trees the source holds, evaluated once
ExtractedTrees == [t \in UNION { PageTrees(id) : id \in IDs } |-> extractMetadata(t)]

\* extractMetadata(pageInfo) as loadPage calls it on a page it was given
Extracted(content) ==
    IF content \in DOMAIN ExtractedTrees
    THEN ExtractedTrees[content]
    ELSE extractMetadata(content)

\* the configured lists of start identifiers
SeedLists == { <<IdA>>, <<IdA, IdB>>, <<Hyphenated(IdB), IdB, Hyphenated(IdA)>> }

(***************************************************************************)
(* State.                                                                  *)
(***************************************************************************)
VARIABLES
    source,       \* the remote pages: identifier -> PageInfo
    seeds,        \* the configured start list (initial value of toVisit)
    flgRecursive, \* child discovery enabled
    useCache,     \* cache-first resolution enabled
    logDir,       \* the log directory exists and is writable (os.MkdirAll succeeded)
    cache,        \* cache directory: normalized identifier -> stored PageInfo
    logs,         \* log directory: identifiers that have a <id>.go.log.txt
    logOpen,      \* a diagnostic log handle is open
    toVisit,      \* pending queue of raw identifiers
    seen,         \* visited set of normalized identifiers
    firstPage,    \* importNotion's firstPage
    pc,           \* position in importNotion
    cur,          \* id of the current iteration
    name,         \* output name of the current iteration
    pageInfo,     \* page of the current iteration, NilPageInfo when doc is nil
    meta,         \* doc.meta of the current iteration
    origin,       \* where the current page came from: "cache", "source", "none"
    err,          \* err of toHTML in the current iteration
    panicValue,   \* why the run was aborted, "none" otherwise
    run,          \* number of the run
    fetched,      \* identifiers passed to notionapi.GetPageInfo in this run, in order
    loaded,       \* identifiers whose loadPage returned a document in this run, in order
    metas,        \* Metadata of the documents loaded in this run
    written,      \* output files written by this run: (name, id)
    reported,     \* identifiers whose failure was printed in this run
    warned,       \* identifiers whose json.Marshal warning was printed in this run
    fetchedOK,    \* identifiers notionapi.GetPageInfo has returned a page for, in any run
    cache0,       \* identifiers with a cache entry when the run started
    logs0,        \* identifiers with a log file when the run started
    prevAbort,    \* how the previous run ended: <<panicValue, id>>
    visits,       \* identifiers marked in seen in this run, in order
    enqueued,     \* every identifier put on toVisit in this run, in order
    srcDocs,      \* documents loaded from the source whose cache entry was written, in any run
    xpc,          \* SpecExtract: position
    xTree,        \* SpecExtract: the content given to extractMetadata
    xOut1,        \* SpecExtract: result of extractMetadata(xTree)
    xOut2,        \* SpecExtract: result of extractMetadata on the stripped content
    ipc,          \* SpecIndex: position
    iPages,       \* SpecIndex: the documents, in map iteration order
    iDocs,        \* SpecIndex: docs of genNotionBasic after sort.Slice
    iListing,     \* SpecIndex: the identifiers listed by genIndexHTML, in order
    npc,          \* SpecNormalize: position
    nRaw,         \* SpecNormalize: the identifier as written in a seed or a page block
    nOut          \* SpecNormalize: what normalizeID and the seen check made of it

envVars == <<source, seeds, flgRecursive, useCache, logDir>>
diskVars == <<cache, logs, logOpen>>
loopVars == <<toVisit, seen, firstPage, pc, cur, name, pageInfo, meta, origin, err, panicValue, run>>
histVars == <<fetched, loaded, metas, written, reported, warned, fetchedOK, cache0, logs0, prevAbort,
              visits, enqueued, srcDocs>>
travVars == <<envVars, diskVars, loopVars, histVars>>
extractVars == <<xpc, xTree, xOut1, xOut2>>
indexVars == <<ipc, iPages, iDocs, iListing>>
normVars == <<npc, nRaw, nOut>>
vars == <<travVars, extractVars, indexVars, normVars>>

EmptyCache == [x \in {} |-> NilPageInfo]

NoResult == [outcome |-> "none", blocks |-> <<>>, meta |-> EmptyMetadata]

ExtractIdle == xpc = "off" /\ xTree = <<>> /\ xOut1 = NoResult /\ xOut2 = NoResult
IndexIdle == ipc = "off" /\ iPages = <<>> /\ iDocs = <<>> /\ iListing = <<>>

NoForms == [once |-> <<>>, compact |-> <<>>, twice |-> <<>>, visits |-> <<>>]
NormIdle == npc = "off" /\ nRaw = <<>> /\ nOut = NoForms

\* state of importNotion at the start of a run
RunStart ==
    /\ toVisit = seeds
    /\ seen = {}
    /\ firstPage = TRUE
    /\ pc = "loop"
    /\ cur = NoID
    /\ name = NoID
    /\ pageInfo = NilPageInfo
    /\ meta = EmptyMetadata
    /\ origin = "none"
    /\ err = FALSE
    /\ panicValue = "none"
    /\ fetched = <<>>
    /\ loaded = <<>>
    /\ metas = {}
    /\ written = {}
    /\ reported = {}
    /\ warned = {}
    /\ visits = <<>>
    /\ enqueued = seeds

Init ==
    /\ source \in Worlds
    /\ seeds \in SeedLists
    /\ flgRecursive \in BOOLEAN
    /\ useCache \in BOOLEAN
    /\ logDir \in BOOLEAN
    /\ \E pre \in BOOLEAN :
         \* the directories are empty, or hold what an earlier run left
         /\ cache = IF pre THEN source ELSE EmptyCache
         /\ logs = IF pre THEN IDs ELSE {}
    /\ logOpen = FALSE
    /\ RunStart
    /\ run = 1
    /\ cache0 = DOMAIN cache
    /\ logs0 = logs
    /\ prevAbort = <<"none", NoID>>
    /\ fetchedOK = {}
    /\ srcDocs = {}
    /\ ExtractIdle
    /\ IndexIdle
    /\ NormIdle

(***************************************************************************)
(* The cache and log directories.                                          *)
(***************************************************************************)
\* ioutil.WriteFile(cachedPath, d, 0644) with d the JSON of the fetched page
WriteCache(c, id, pi) == [x \in DOMAIN c \cup {id} |-> IF x = id THEN pi ELSE c[x]]

\* os.Remove of the cache file of id; a missing file is only reported
RemoveCache(c, id) == [x \in DOMAIN c \ {id} |-> c[x]]

\* rmCached: the identifier is normalized, then the log and the cache file go
rmCachedLogs(l, pageID) == l \ {normalizeID(pageID)}
\* faulty variant of rmCachedCache: the file is looked up under the identifier as given
rmCachedCacheRaw(c, pageID) == RemoveCache(c, pageID)
rmCachedCache(c, pageID) == RemoveCache(c, normalizeID(pageID))

\* faulty variant of findSubPageIDs: the ids are collected back to front
findSubPageIDsReversed(blocks) ==
    LET refs == SelectSeq(blocks, LAMBDA b : b.type = "page") IN
    [i \in 1..Len(refs) |-> refs[Len(refs) + 1 - i].id]

\* findSubPageIDs: the ids of the page blocks, in order
RECURSIVE findSubPageIDs(_)
findSubPageIDs(blocks) ==
    IF blocks = <<>> THEN <<>>
    ELSE IF Head(blocks).type = "page"
         THEN <<Head(blocks).id>> \o findSubPageIDs(Tail(blocks))
         ELSE findSubPageIDs(Tail(blocks))

(***************************************************************************)
(* importNotion, one action per step of an iteration.                      *)
(***************************************************************************)
pureVars == <<extractVars, indexVars, normVars>>

\* faulty variant of Dequeue: an identifier already in seen stays at the head
DequeueKeepSeen(q, s) == IF normalizeID(Head(q)) \in s THEN q ELSE Tail(q)

\* pageID := toVisit[0]; toVisit = toVisit[1:], before seen is looked at
Dequeue(q, s) == Tail(q)

\* faulty variant of MarkSeen: the identifier is not recorded
MarkSeenNever(s, id) == s

\* seen[id] = true, before loadPage is called
MarkSeen(s, id) == s \cup {id}

\* name of the output of the current iteration
OutputName(first, id) == IF first THEN IndexName ELSE id

\* the head of the queue is popped and normalized; an identifier already in
\* seen is dropped, a new one is marked seen and becomes the current page
Pop ==
    /\ pc = "loop"
    /\ toVisit # <<>>
    /\ LET id == normalizeID(Head(toVisit)) IN
         /\ toVisit' = Dequeue(toVisit, seen)
         /\ IF id \in seen
            THEN UNCHANGED <<seen, pc, cur, name, pageInfo, meta, origin, err, visits>>
            ELSE /\ seen' = MarkSeen(seen, id)
                 /\ visits' = Append(visits, id)
                 /\ cur' = id
                 /\ name' = OutputName(firstPage, id)
                 /\ pageInfo' = NilPageInfo
                 /\ meta' = EmptyMetadata
                 /\ origin' = "none"
                 /\ err' = FALSE
                 /\ pc' = "cache"
    /\ UNCHANGED <<envVars, diskVars, firstPage, panicValue, run, fetched, loaded, metas,
                   written, reported, warned, fetchedOK, cache0, logs0, prevAbort, enqueued,
                   srcDocs, pureVars>>

\* the queue is empty: the loop ends (copyCSS)
Finish ==
    /\ pc = "loop"
    /\ toVisit = <<>>
    /\ pc' = "done"
    /\ UNCHANGED <<envVars, diskVars, toVisit, seen, firstPage, cur, name, pageInfo,
                   meta, origin, err, panicValue, run, histVars, pureVars>>

\* faulty variant of CacheHit: the cache is never consulted
CacheHitNever(id) == FALSE

\* loadPageFromCache finds an entry exactly when caching is on and the file exists
CacheHit(id) == useCache /\ id \in DOMAIN cache

\* loadPage, first half: loadPageFromCache.  The files of the cache directory
\* are those WriteCache wrote, which json.Unmarshal reads back as written.
LoadFromCache ==
    /\ pc = "cache"
    /\ IF CacheHit(cur)
       THEN /\ pageInfo' = cache[cur]
            /\ origin' = "cache"
            /\ pc' = "extract"
       ELSE /\ pc' = "open"
            /\ UNCHANGED <<pageInfo, origin>>
    /\ UNCHANGED <<envVars, diskVars, toVisit, seen, firstPage, cur, name, meta, err,
                   panicValue, run, histVars, pureVars>>

\* downloadAndCachePage, openLogFileForPageID: os.Create makes the log file
\* and the handle, or fails and the download goes on without a log
OpenLog ==
    /\ pc = "open"
    /\ logs' = IF logDir THEN logs \cup {cur} ELSE logs
    /\ logOpen' = logDir
    /\ pc' = "fetch"
    /\ UNCHANGED <<envVars, cache, toVisit, seen, firstPage, cur, name, pageInfo, meta,
                   origin, err, panicValue, run, histVars, pureVars>>

\* results of the rest of downloadAndCachePage
FetchOutcomes == {"fetcherror", "cached", "marshalerror", "writeerror"}

\* faulty variant of CacheAfterDownload: the entry is written whatever
\* notionapi.GetPageInfo returned
CacheAfterDownloadAlways(c, id, o) == WriteCache(c, id, source[id])

\* faulty variant of CacheAfterDownload: the entry is written from the page
\* after extractMetadata stripped it
CacheAfterDownloadStripped(c, id, o) ==
    IF o = "cached"
    THEN WriteCache(c, id, [source[id] EXCEPT !.Content = Extracted(source[id].Content).blocks])
    ELSE c

\* the cache directory after downloadAndCachePage(id) ended with outcome o
CacheAfterDownload(c, id, o) ==
    IF o = "cached" THEN WriteCache(c, id, source[id]) ELSE c

\* faulty variant of LogAfterDownload: Close is called before the normal
\* return only
LogAfterDownloadNoDefer(open, o) == IF o \in {"fetcherror", "writeerror"} THEN open ELSE FALSE

\* defer lf.Close(): the handle is closed however downloadAndCachePage is left
LogAfterDownload(open, o) == FALSE

\* downloadAndCachePage from notionapi.GetPageInfo on; the deferred Close of
\* the log runs however the function is left
Fetch ==
    /\ pc = "fetch"
    /\ \E o \in FetchOutcomes :
         /\ cache' = CacheAfterDownload(cache, cur, o)
         /\ pageInfo' = IF o \in {"cached", "marshalerror"} THEN source[cur] ELSE NilPageInfo
         /\ origin' = IF o \in {"cached", "marshalerror"} THEN "source" ELSE "none"
         /\ err' = (o = "fetcherror")
         /\ warned' = IF o = "marshalerror" THEN warned \cup {cur} ELSE warned
         /\ fetchedOK' = IF o = "fetcherror" THEN fetchedOK ELSE fetchedOK \cup {cur}
         /\ panicValue' = IF o = "writeerror" THEN "cachewrite" ELSE "none"
         /\ pc' = CASE o = "fetcherror" -> "after"
                    [] o = "writeerror" -> "aborted"
                    [] OTHER -> "extract"
         /\ logOpen' = LogAfterDownload(logOpen, o)
    /\ fetched' = Append(fetched, cur)
    /\ UNCHANGED <<envVars, logs, toVisit, seen, firstPage, cur, name, meta, run,
                   loaded, metas, written, reported, cache0, logs0, prevAbort, visits,
                   enqueued, srcDocs, pureVars>>

\* faulty variant of CleansUp: every panic of extractMetadata removes the files
CleansUpOnAnyPanic(outcome) == outcome # "ok"

\* rmCached is called in the default case of the switch only; decodeDate
\* panics without it
CleansUp(outcome) == outcome = "unsupported"

\* loadPage, second half: extractMetadata on the page; the default case of
\* its switch calls rmCached(pageInfo.ID) before it panics
Extract ==
    /\ pc = "extract"
    /\ LET r == Extracted(pageInfo.Content) IN
         /\ IF r.outcome = "ok"
            THEN /\ pageInfo' = [pageInfo EXCEPT !.Content = r.blocks]
                 /\ meta' = r.meta
                 /\ loaded' = Append(loaded, cur)
                 /\ metas' = metas \cup {[id |-> cur, meta |-> r.meta]}
                 /\ srcDocs' = IF origin = "source" /\ cur \notin warned
                               THEN srcDocs \cup {[id |-> cur, meta |-> r.meta, content |-> r.blocks]}
                               ELSE srcDocs
                 /\ pc' = "render"
                 /\ UNCHANGED panicValue
            ELSE /\ panicValue' = r.outcome
                 /\ pc' = "aborted"
                 /\ UNCHANGED <<pageInfo, meta, loaded, metas, srcDocs>>
         /\ IF CleansUp(r.outcome)
            THEN /\ logs' = rmCachedLogs(logs, pageInfo.ID)
                 /\ cache' = rmCachedCache(cache, pageInfo.ID)
            ELSE UNCHANGED <<logs, cache>>
    /\ UNCHANGED <<envVars, logOpen, toVisit, seen, firstPage, cur, name, origin, err, run,
                   fetched, written, reported, warned, fetchedOK, cache0, logs0, prevAbort,
                   visits, enqueued, pureVars>>

\* toHTML after loadPage: genHTML and the write of the output file, which
\* is taken to succeed
Render ==
    /\ pc = "render"
    /\ written' = written \cup {[name |-> name, id |-> cur]}
    /\ err' = FALSE
    /\ pc' = "after"
    /\ UNCHANGED <<envVars, diskVars, toVisit, seen, firstPage, cur, name, pageInfo, meta,
                   origin, panicValue, run, fetched, loaded, metas, reported, warned, fetchedOK,
                   cache0, logs0, prevAbort, visits, enqueued, srcDocs, pureVars>>

\* importNotion after toHTML: the error is printed; with flgRecursive the
\* sub-pages of doc are appended, and doc is nil when loadPage failed
AfterToHTML ==
    /\ pc = "after"
    /\ reported' = IF err THEN reported \cup {cur} ELSE reported
    /\ IF flgRecursive /\ pageInfo.nil
       THEN /\ panicValue' = "nilderef"
            /\ pc' = "aborted"
            /\ UNCHANGED <<toVisit, firstPage, enqueued>>
       ELSE /\ toVisit' = IF flgRecursive
                          THEN toVisit \o findSubPageIDs(pageInfo.Content)
                          ELSE toVisit
            /\ enqueued' = IF flgRecursive
                           THEN enqueued \o findSubPageIDs(pageInfo.Content)
                           ELSE enqueued
            /\ firstPage' = FALSE
            /\ pc' = "loop"
            /\ UNCHANGED panicValue
    /\ UNCHANGED <<envVars, diskVars, seen, cur, name, pageInfo, meta, origin, err, run,
                   fetched, loaded, metas, written, warned, fetchedOK, cache0, logs0,
                   prevAbort, visits, srcDocs, pureVars>>

\* the program is started again over the same directories
NewRun ==
    /\ pc \in {"done", "aborted"}
    /\ run < MaxRuns
    /\ run' = run + 1
    /\ prevAbort' = <<panicValue, IF pc = "aborted" THEN cur ELSE NoID>>
    /\ cache0' = DOMAIN cache
    /\ logs0' = logs
    /\ toVisit' = seeds
    /\ seen' = {}
    /\ firstPage' = TRUE
    /\ pc' = "loop"
    /\ cur' = NoID
    /\ name' = NoID
    /\ pageInfo' = NilPageInfo
    /\ meta' = EmptyMetadata
    /\ origin' = "none"
    /\ err' = FALSE
    /\ panicValue' = "none"
    /\ fetched' = <<>>
    /\ loaded' = <<>>
    /\ metas' = {}
    /\ written' = {}
    /\ reported' = {}
    /\ warned' = {}
    /\ visits' = <<>>
    /\ enqueued' = seeds
    /\ UNCHANGED <<envVars, diskVars, fetchedOK, srcDocs, pureVars>>

Next ==
    \/ Pop
    \/ Finish
    \/ LoadFromCache
    \/ OpenLog
    \/ Fetch
    \/ Extract
    \/ Render
    \/ AfterToHTML
    \/ NewRun

Spec == Init /\ [][Next]_vars

(***************************************************************************)
(* SpecExtract: extractMetadata applied to every block sequence of at most *)
(* MaxLen blocks, then applied again to the content it left.               *)
(***************************************************************************)
\* importNotion is not running
TravIdle ==
    /\ source = EmptyCache
    /\ seeds = <<>>
    /\ flgRecursive = FALSE
    /\ useCache = FALSE
    /\ logDir = FALSE
    /\ cache = EmptyCache
    /\ logs = {}
    /\ logOpen = FALSE
    /\ toVisit = <<>>
    /\ seen = {}
    /\ firstPage = TRUE
    /\ pc = "off"
    /\ cur = NoID
    /\ name = NoID
    /\ pageInfo = NilPageInfo
    /\ meta = EmptyMetadata
    /\ origin = "none"
    /\ err = FALSE
    /\ panicValue = "none"
    /\ run = 0
    /\ fetched = <<>>
    /\ loaded = <<>>
    /\ metas = {}
    /\ written = {}
    /\ reported = {}
    /\ warned = {}
    /\ fetchedOK = {}
    /\ cache0 = {}
    /\ logs0 = {}
    /\ prevAbort = <<"none", NoID>>
    /\ visits = <<>>
    /\ enqueued = <<>>
    /\ srcDocs = {}

ExtractBlocks ==
    { TextBlock(TxtDate, TRUE), TextBlock(TxtTags, TRUE), TextBlock(TxtFoo, TRUE),
      TextBlock(TxtBadDate, TRUE), TextBlock(TxtBlank, TRUE), TextBlock(TxtHello, TRUE),
      TextBlock(TxtTags, FALSE), EmptyTextBlock, PageBlock(IdB), OtherBlock }

SeqsUpTo(S, n) == UNION { [1..k -> S] : k \in 0..n }

InitExtract ==
    /\ TravIdle
    /\ IndexIdle
    /\ NormIdle
    /\ xpc = "in"
    /\ xTree \in SeqsUpTo(ExtractBlocks, MaxLen)
    /\ xOut1 = NoResult
    /\ xOut2 = NoResult

\* extractMetadata on the page as loaded
ExtractOnce ==
    /\ xpc = "in"
    /\ xOut1' = extractMetadata(xTree)
    /\ xpc' = "once"
    /\ UNCHANGED <<travVars, indexVars, normVars, xTree, xOut2>>

\* extractMetadata on the content the first call left in the page
ExtractAgain ==
    /\ xpc = "once"
    /\ xOut1.outcome = "ok"
    /\ xOut2' = extractMetadata(xOut1.blocks)
    /\ xpc' = "twice"
    /\ UNCHANGED <<travVars, indexVars, normVars, xTree, xOut1>>

NextExtract == ExtractOnce \/ ExtractAgain

SpecExtract == InitExtract /\ [][NextExtract]_vars

(***************************************************************************)
(* SpecIndex: genNotionBasic and genIndexHTML on at most MaxDocs documents.*)
(***************************************************************************)
StrNotImportantMixed == <<"N","o","t","I","m","p","o","r","t","a","n","t">>

IndexStatuses == {<<>>, StrHidden, StrNotImportant, StrNotImportantMixed}
IndexDates == {ZeroTime, <<2020, 1, 1, 0, 0, 0>>, <<2020, 1, 1, 0, 0, 1>>}

\* the Metadata of a document with the given status and parsed date
MetaOf(st, d) == [EmptyMetadata EXCEPT !.Status = st, !.Date = d]

\* the documents of the pages map in the order the map iteration delivers
\* them; the position stands for the page identifier
IndexInputs ==
    UNION { [1..k -> {MetaOf(st, d) : st \in IndexStatuses, d \in IndexDates}] : k \in 0..MaxDocs }

DocsOf(metaSeq) == [i \in 1..Len(metaSeq) |-> [id |-> i, meta |-> metaSeq[i]]]

\* faulty variant of DocLess: the comparison is the wrong way round
DocLessAscending(d1, d2) == After(d2.meta.Date, d1.meta.Date)

\* the less function given to sort.Slice
DocLess(d1, d2) == After(d1.meta.Date, d2.meta.Date)

Swap(s, i, j) == [s EXCEPT ![i] = s[j], ![j] = s[i]]

\* sort.Slice on a short slice is an insertion sort
RECURSIVE SiftDown(_, _)
SiftDown(s, j) ==
    IF j > 1 /\ DocLess(s[j], s[j - 1]) THEN SiftDown(Swap(s, j, j - 1), j - 1) ELSE s

RECURSIVE InsertionSortFrom(_, _)
InsertionSortFrom(s, i) ==
    IF i > Len(s) THEN s ELSE InsertionSortFrom(SiftDown(s, i), i + 1)

SortSlice(s) == InsertionSortFrom(s, 2)

\* genIndexHTML keeps a line for a document unless it is not important
Listed(doc) == ~IsNotImportant(doc.meta)

\* the lines of genIndexHTML, one per listed document, in the order of docs
RECURSIVE IndexLines(_)
IndexLines(docs) ==
    IF docs = <<>> THEN <<>>
    ELSE IF Listed(Head(docs))
         THEN <<Head(docs)>> \o IndexLines(Tail(docs))
         ELSE IndexLines(Tail(docs))

InitIndex ==
    /\ TravIdle
    /\ ExtractIdle
    /\ NormIdle
    /\ ipc = "in"
    /\ \E ms \in IndexInputs : iPages = DocsOf(ms)
    /\ iDocs = <<>>
    /\ iListing = <<>>

\* genNotionBasic: the documents are collected and sorted
SortDocs ==
    /\ ipc = "in"
    /\ iDocs' = SortSlice(iPages)
    /\ ipc' = "sorted"
    /\ UNCHANGED <<travVars, extractVars, normVars, iPages, iListing>>

\* genNotionBasic: genIndexHTML(docs)
GenIndex ==
    /\ ipc = "sorted"
    /\ iListing' = IndexLines(iDocs)
    /\ ipc' = "listed"
    /\ UNCHANGED <<travVars, extractVars, normVars, iPages, iDocs>>

NextIndex == SortDocs \/ GenIndex

SpecIndex == InitIndex /\ [][NextIndex]_vars

(***************************************************************************)
(* Properties of extractMetadata (SpecExtract).                            *)
(***************************************************************************)
BlankLine == TextBlock(TxtBlank, TRUE)
RecognizedLines == {TextBlock(TxtDate, TRUE), TextBlock(TxtTags, TRUE)}

\* xTree is n recognized header lines, then the blank line, then a body
HeaderOf(n) ==
    /\ n + 1 <= Len(xTree)
    /\ \A i \in 1..n : xTree[i] \in RecognizedLines
    /\ xTree[n + 1] = BlankLine

BodyOf(n) == SubSeq(xTree, n + 2, Len(xTree))

\* every field a header line of xTree[1..n] names has been set
Populated(m, n) ==
    /\ (\E i \in 1..n : xTree[i] = TextBlock(TxtDate, TRUE))
          => m.DateStr # <<>> /\ m.Date = <<2020, 1, 1, 0, 0, 0>>
    /\ (\E i \in 1..n : xTree[i] = TextBlock(TxtTags, TRUE))
          => m.Tags = <<StrGo, StrWeb>>

\* C4: for a tree of N recognized header lines, a blank line and body blocks,
\* extractMetadata returns with all N fields populated and leaves exactly
\* the body blocks, all of them, in their order.
C4_HeaderStrippedBodyKept ==
    \A n \in 0..MaxLen :
        (xpc # "in" /\ HeaderOf(n)) =>
            /\ xOut1.outcome = "ok"
            /\ Populated(xOut1.meta, n)
            /\ xOut1.blocks = BodyOf(n)

\* the content left by the first call starts with no block the loop of
\* extractMetadata would drop or parse
LeftAtBody(blocks) ==
    \/ blocks = <<>>
    \/ Head(blocks).type # "text"
    \/ /\ Len(Head(blocks).inline) > 0
       /\ ~Head(blocks).inline[1].plain

\* C9 as claimed: whenever extractMetadata completed, a second call on the
\* content it left returns an empty Metadata and leaves the content unchanged.
C9_IdempotentOnOutput ==
    xpc = "twice" =>
        /\ xOut2.outcome = "ok"
        /\ xOut2.meta = EmptyMetadata
        /\ xOut2.blocks = xOut1.blocks

\* C9 amended: the second call returns an empty Metadata and leaves the
\* content unchanged when the content left by the first call is empty or
\* starts with a block that is not a text block or whose first run is formatted.
C9_IdempotentWhenLeftAtBody ==
    (xpc = "twice" /\ LeftAtBody(xOut1.blocks)) =>
        /\ xOut2.outcome = "ok"
        /\ xOut2.meta = EmptyMetadata
        /\ xOut2.blocks = xOut1.blocks

\* a header was parsed and the loop stopped at a formatted text block, which
\* the second call met again
C9_Witness ==
    /\ xpc = "twice"
    /\ xOut1.meta.Tags = <<StrGo, StrWeb>>
    /\ xOut1.blocks # <<>>
    /\ Head(xOut1.blocks) = TextBlock(TxtTags, FALSE)
    /\ Len(xOut1.blocks) < Len(xTree)
    /\ xOut2.blocks = xOut1.blocks

(***************************************************************************)
(* Properties of the index listing (SpecIndex).                            *)
(***************************************************************************)
\* the spellings of "notimportant" among the statuses of the documents
NotImportantSpellings == {StrNotImportant, StrNotImportantMixed}

\* d1 is not after d2: the instants compared field by field
NotAfter(d1, d2) ==
    \/ d1 = d2
    \/ \E k \in 1..6 : d1[k] < d2[k] /\ \A m \in 1..(k - 1) : d1[m] = d2[m]

NoDuplicates(q) == \A i, j \in 1..Len(q) : i # j => q[i] # q[j]

\* the identifiers the page-reference blocks of the page id name
RefsOf(id) ==
    { normalizeID(source[id].Content[i].id) :
        i \in { k \in 1..Len(source[id].Content) : source[id].Content[k].type = "page" } }

RECURSIVE ReachableFrom(_)
ReachableFrom(S) ==
    LET T == S \cup UNION { RefsOf(id) : id \in S } IN
    IF T = S THEN S ELSE ReachableFrom(T)

\* the identifiers reachable from the seeds through page-reference blocks
Reachable == ReachableFrom({ normalizeID(seeds[i]) : i \in 1..Len(seeds) })

\* C1: with child discovery enabled every identifier is loaded at most once,
\* and when the queue has become empty the visited set is the set of
\* identifiers reachable from the seeds through page-reference blocks.
C1_VisitedIsReachable ==
    flgRecursive =>
        /\ NoDuplicates(fetched)
        /\ NoDuplicates(loaded)
        /\ pc = "done" => seen = Reachable

\* C2: a failed load never aborts the run, with or without child discovery:
\* the run is not aborted while the error of the current load is pending.
C2_FailedLoadNeverAborts ==
    ~(pc = "aborted" /\ err /\ pageInfo.nil)

\* C3: the page written under the name "index" is the first identifier that
\* was loaded successfully, and every other page is written under its own
\* normalized identifier.
C3_RootIsFirstLoaded ==
    \A w \in written :
        IF w.id = Head(loaded) THEN w.name = IndexName ELSE w.name = w.id

\* the scenario of C5: seed AAAA; AAAA is Date, Tags, blank line, one
\* reference to BBBB; BBBB is Status: hidden and nothing else
C5_Scenario ==
    /\ flgRecursive
    /\ seeds = <<IdA>>
    /\ source[IdA].Content =
          <<TextBlock(TxtDate, TRUE), TextBlock(TxtTags, TRUE), TextBlock(TxtBlank, TRUE),
            PageBlock(IdB)>>
    /\ source[IdB].Content = <<TextBlock(TxtStatusHidden, TRUE)>>

\* C5: in that scenario the run ends with visited set {AAAA, BBBB}, root
\* AAAA and the tags [go, web] for AAAA.
C5_ChildAfterBlankLineVisited ==
    (C5_Scenario /\ pc = "done") =>
        /\ seen = {IdA, IdB}
        /\ [name |-> IndexName, id |-> IdA] \in written
        /\ \E d \in metas : d.id = IdA /\ d.meta.Tags = <<StrGo, StrWeb>>

\* the page starts with a header line whose key is not recognized
HasUnsupportedKey(id) == Head(source[id].Content) = TextBlock(TxtFoo, TRUE)

\* C6: a page with an unrecognized header key never yields a document; the
\* run that met it is aborted with neither the cache entry nor the log of
\* that identifier left, so the run after it finds no entry for it and takes
\* the page from the source.
C6_UnsupportedKeyCleansUp ==
    /\ \A i \in 1..Len(loaded) : ~HasUnsupportedKey(loaded[i])
    /\ (pc = "aborted" /\ panicValue = "unsupported") =>
          cur \notin DOMAIN cache /\ cur \notin logs
    /\ prevAbort[1] = "unsupported" =>
          /\ prevAbort[2] \notin cache0 /\ prevAbort[2] \notin logs0
          /\ (cur = prevAbort[2] /\ origin # "none") => origin = "source"

\* the run is aborted on an unrecognized key of a page that came from the
\* cache, and both its cache entry and its log existed when the run started
C6_Witness ==
    /\ pc = "aborted"
    /\ panicValue = "unsupported"
    /\ origin = "cache"
    /\ cur \in cache0
    /\ cur \in logs0
    /\ cur \notin DOMAIN cache
    /\ cur \notin logs

\* resolution is cache first: a page taken from the cache is the stored
\* tree and the source was not asked for it; a page from the source was
\* fetched in this run
CacheFirst ==
    /\ (pc = "extract" /\ origin = "cache") =>
          /\ useCache
          /\ pageInfo = cache[cur]
          /\ \A i \in 1..Len(fetched) : fetched[i] # cur
    /\ (pc = "extract" /\ origin = "source") =>
          /\ fetched # <<>>
          /\ fetched[Len(fetched)] = cur

\* C7 as claimed: resolution is cache first, after every successful fetch
\* the cache holds the fetched tree under the normalized identifier, and an
\* identifier that was fetched successfully before is never fetched again
\* while caching is enabled.
C7_CacheFirstAlwaysStored ==
    /\ CacheFirst
    /\ (pc = "extract" /\ origin = "source") =>
          cur \in DOMAIN cache /\ cache[cur] = pageInfo
    /\ (pc \in {"open", "fetch"} /\ useCache) => cur \notin fetchedOK

\* C7 amended: resolution is cache first, after every successful fetch whose
\* tree could be serialized the cache holds the fetched tree under the
\* normalized identifier, and an identifier that has a cache entry is never
\* fetched while caching is enabled.
C7_CacheFirstStoredWhenSerialized ==
    /\ CacheFirst
    /\ (pc = "extract" /\ origin = "source" /\ cur \notin warned) =>
          cur \in DOMAIN cache /\ cache[cur] = pageInfo
    /\ (pc \in {"open", "fetch"} /\ useCache) => cur \notin DOMAIN cache

\* a page fetched and stored by an earlier run is served from the cache
C7_Witness ==
    /\ run = 2
    /\ pc = "extract"
    /\ origin = "cache"
    /\ cur \in fetchedOK
    /\ fetched = <<>>

\* C8: when the fetch of an identifier fails the error goes to the caller
\* and the cache directory is left exactly as it was.
C8_FailedFetchCachesNothing ==
    [][(pc = "fetch" /\ pc' = "after") =>
          /\ err'
          /\ pageInfo' = NilPageInfo
          /\ cache' = cache]_vars

\* a fetch failed while the cache held the entry of the other page
C8_Witness ==
    /\ pc = "after"
    /\ err
    /\ pageInfo.nil
    /\ cur \notin DOMAIN cache
    /\ DOMAIN cache # {}

(***************************************************************************)
(* The log handle of a download.                                           *)
(***************************************************************************)
\* the log file of id was created by this run
LogCreated(id) == id \in logs \ logs0

\* C11: a log handle is open only inside a download from the source, never
\* for a page served from the cache (no log file is created for it), and it
\* is closed when the download is left, by its return, by a fetch error or
\* by the fatal failure of the cache write: in the loop, and after the run,
\* no handle is open.
C11_LogHandleScopedToFetch ==
    /\ logOpen => pc = "fetch" /\ ~CacheHit(cur)
    /\ origin = "cache" => ~LogCreated(cur)
    /\ pc \in {"loop", "done", "aborted", "after", "extract", "render"} => ~logOpen

\* a download that opened a log ended in the fatal failure of the cache
\* write, and the handle is closed
C11_Witness ==
    /\ pc = "aborted"
    /\ panicValue = "cachewrite"
    /\ LogCreated(cur)
    /\ ~logOpen

(***************************************************************************)
(* SpecRun: one run of importNotion, whose steps are taken one after the   *)
(* other until the loop ends or the process panics: the program is         *)
(* sequential and no step waits for anything, hence weak fairness of Step. *)
(***************************************************************************)
Step ==
    \/ Pop
    \/ Finish
    \/ LoadFromCache
    \/ OpenLog
    \/ Fetch
    \/ Extract
    \/ Render
    \/ AfterToHTML

SpecRun == Init /\ [][Step]_vars /\ WF_vars(Step)

\* the ways a load ends the run
LoadFailures == {"cachewrite", "unsupported", "date", "bounds", "nilderef"}

\* C12: on every page graph, cycles and pages referenced many times included,
\* the run ends: the loop reaches done with the queue empty unless a load
\* failed and ended the run, and no identifier is processed twice.
C12_TraversalTerminates ==
    /\ <>(pc = "done" \/ pc = "aborted")
    /\ [](pc = "done" => toVisit = <<>>)
    /\ [](pc = "aborted" => panicValue \in LoadFailures)
    /\ [](NoDuplicates(visits))

\* a recursive run over two pages that reference themselves and each other,
\* each twice, ended with every load succeeding
C12_Witness ==
    /\ pc = "done"
    /\ flgRecursive
    /\ seen = IDs
    /\ reported = {}
    /\ Len(enqueued) >= 7
    /\ toVisit = <<>>

(***************************************************************************)
(* SpecNormalize: normalizeID applied to every identifier of at most       *)
(* MaxIdLen characters, to its result and to its compact form, and the     *)
(* seen check of importNotion applied to a queue that holds both forms.    *)
(***************************************************************************)
\* longest identifier given to normalizeID in SpecNormalize
MaxIdLen == 4

\* the characters of an identifier: letters and the hyphen
IdChars == {"A", "B", "-"}

\* the identifier written without hyphens
Compact(s) == SelectSeq(s, LAMBDA c : c # "-")

\* the loop of importNotion without loads: the identifiers that pass the
\* seen check, in order
RECURSIVE SeenLoop(_, _)
SeenLoop(q, s) ==
    IF q = <<>> THEN <<>>
    ELSE LET id == normalizeID(Head(q)) IN
         IF id \in s
         THEN SeenLoop(Dequeue(q, s), s)
         ELSE <<id>> \o SeenLoop(Dequeue(q, s), MarkSeen(s, id))

InitNormalize ==
    /\ npc = "in"
    /\ nRaw \in SeqsUpTo(IdChars, MaxIdLen)
    /\ nOut = NoForms
    /\ TravIdle
    /\ ExtractIdle
    /\ IndexIdle

\* id := normalizeID(pageID), for the identifier and for its compact form
NormalizeForms ==
    /\ npc = "in"
    /\ nOut' = [nOut EXCEPT !.once = normalizeID(nRaw),
                            !.compact = normalizeID(Compact(nRaw))]
    /\ npc' = "once"
    /\ UNCHANGED <<travVars, extractVars, indexVars, nRaw>>

\* a normalized identifier is normalized again (rmCached on a stored id)
NormalizeAgain ==
    /\ npc = "once"
    /\ nOut' = [nOut EXCEPT !.twice = normalizeID(nOut.once)]
    /\ npc' = "twice"
    /\ UNCHANGED <<travVars, extractVars, indexVars, nRaw>>

\* the queue holds the identifier as written, its compact form, and the
\* identifier as written once more
VisitForms ==
    /\ npc = "twice"
    /\ nOut' = [nOut EXCEPT !.visits = SeenLoop(<<nRaw, Compact(nRaw), nRaw>>, {})]
    /\ npc' = "visited"
    /\ UNCHANGED <<travVars, extractVars, indexVars, nRaw>>

NextNormalize ==
    \/ NormalizeForms
    \/ NormalizeAgain
    \/ VisitForms

SpecNormalize == InitNormalize /\ [][NextNormalize]_vars

\* C13: normalizeID is idempotent, the identifier as written and its compact
\* form normalize to the same value, and a queue that holds both forms
\* yields one visited identifier.
C13_NormalizeIdempotentOneVisit ==
    /\ npc # "in" => nOut.once = nOut.compact
    /\ npc \in {"twice", "visited"} => nOut.twice = nOut.once
    /\ npc = "visited" => nOut.visits = <<nOut.once>>

\* an identifier with two hyphens went through both normalizations and the
\* seen check
C13_Witness ==
    /\ npc = "visited"
    /\ nRaw = <<"A", "-", "B", "-">>
    /\ nOut.twice = <<"A", "B">>
    /\ nOut.visits = << <<"A", "B">> >>

(***************************************************************************)
(* Where the loop of extractMetadata stops (SpecExtract).                  *)
(***************************************************************************)
\* xTree is n recognized header lines followed by the block b
LeadsTo(n, b) ==
    /\ n + 1 <= Len(xTree)
    /\ \A i \in 1..n : xTree[i] \in RecognizedLines
    /\ xTree[n + 1] = b

\* the blocks of xTree from the k-th on
RestFrom(k) == SubSeq(xTree, k, Len(xTree))

\* a plain text block whose text is not empty and has no colon
NoColonLine == TextBlock(TxtHello, TRUE)

\* C14: when the leading block is a plain text block whose trimmed text is
\* not empty and has no colon, extractMetadata returns and that block is
\* still the first block of the content it leaves.
C14_NoColonBlockKept ==
    \A n \in 0..MaxLen :
        (xpc # "in" /\ LeadsTo(n, NoColonLine)) =>
            /\ xOut1.outcome = "ok"
            /\ xOut1.blocks = RestFrom(n + 1)

\* C15: for a tree of zero or more recognized header lines and the blank
\* line with nothing after it, extractMetadata returns, with the fields of
\* the header lines populated, and leaves no content.
C15_SentinelAtEndCompletes ==
    \A n \in 0..MaxLen :
        (xpc # "in" /\ HeaderOf(n) /\ Len(xTree) = n + 1) =>
            /\ xOut1.outcome = "ok"
            /\ Populated(xOut1.meta, n)
            /\ xOut1.blocks = <<>>

\* a text block whose first run carries formatting
FormattedLine == TextBlock(TxtTags, FALSE)

\* C16 as claimed: when the loop stops at a text block without inline content
\* or at a text block whose first run is formatted, that block is the first
\* block of the content extractMetadata leaves.
C16_StopBlockKeptInBothCases ==
    \A n \in 0..MaxLen :
        (xpc # "in" /\ (LeadsTo(n, EmptyTextBlock) \/ LeadsTo(n, FormattedLine))) =>
            /\ xOut1.outcome = "ok"
            /\ xOut1.blocks = RestFrom(n + 1)

\* C16 amended: a text block whose first run is formatted stops the loop and
\* stays the first block of the content; a text block without inline content
\* stops the loop and is dropped, the content starts with the block after it.
C16_FormattedKeptEmptyDropped ==
    \A n \in 0..MaxLen :
        /\ (xpc # "in" /\ LeadsTo(n, FormattedLine)) =>
              /\ xOut1.outcome = "ok"
              /\ Populated(xOut1.meta, n)
              /\ xOut1.blocks = RestFrom(n + 1)
        /\ (xpc # "in" /\ LeadsTo(n, EmptyTextBlock)) =>
              /\ xOut1.outcome = "ok"
              /\ Populated(xOut1.meta, n)
              /\ xOut1.blocks = RestFrom(n + 2)

\* a Tags line, a text block without inline content and a body block: the
\* call left the body block alone
C16_Witness ==
    /\ xpc = "once"
    /\ Len(xTree) = 3
    /\ LeadsTo(1, EmptyTextBlock)
    /\ xTree[3] = NoColonLine
    /\ xOut1.meta.Tags = <<StrGo, StrWeb>>
    /\ xOut1.blocks = <<NoColonLine>>

(***************************************************************************)
(* The queue of importNotion (Spec).                                       *)
(***************************************************************************)
\* the identifiers of the page-reference blocks of a tree, in tree order
PageRefs(blocks) ==
    LET refs == SelectSeq(blocks, LAMBDA b : b.type = "page") IN
    [i \in 1..Len(refs) |-> refs[i].id]

\* the normalized identifiers of q, each at its first occurrence only
FirstOccurrences(q) ==
    LET n == [i \in 1..Len(q) |-> normalizeID(q[i])]
        keep == { i \in 1..Len(q) : \A j \in 1..(i - 1) : n[j] # n[i] }
    IN  [k \in 1..Cardinality(keep) |->
            n[CHOOSE i \in keep : Cardinality({ j \in keep : j <= i }) = k]]

\* the entries of enqueued that have been popped
Popped == SubSeq(enqueued, 1, Len(enqueued) - Len(toVisit))

\* the head of the queue is an identifier already in seen
HeadSeen == pc = "loop" /\ toVisit # <<>> /\ normalizeID(Head(toVisit)) \in seen

LoadSteps == {"cache", "open", "fetch", "extract", "render", "after"}

\* C18: an identifier is in seen before its load is attempted; no identifier
\* is attempted twice in a run, a failed one included however often it
\* recurs in the queue, and notionapi.GetPageInfo is called at most once
\* per normalized identifier per run.
C18_SeenBeforeLoadNoRetry ==
    /\ pc \in LoadSteps => cur \in seen /\ visits # <<>> /\ visits[Len(visits)] = cur
    /\ NoDuplicates(visits)
    /\ NoDuplicates(fetched)
    /\ \A i \in 1..Len(fetched) : fetched[i] \in seen /\ fetched[i] = normalizeID(fetched[i])
    /\ reported \subseteq seen

\* without child discovery the fetch of BBBB failed, and its second
\* occurrence in the seeds has been popped and dropped without a fetch
C18_Witness ==
    /\ ~flgRecursive
    /\ seeds = <<Hyphenated(IdB), IdB, Hyphenated(IdA)>>
    /\ pc = "loop"
    /\ toVisit = <<Hyphenated(IdA)>>
    /\ IdB \in reported
    /\ fetched = <<IdB>>
    /\ visits = <<IdB>>

(***************************************************************************)
(* The cache against the source (Spec).                                    *)
(***************************************************************************)
\* the documents a load from the source produced for id when it wrote the
\* cache entry of id
SourceDocsOf(id) == { d \in srcDocs : d.id = id }

DatePanicStep == pc = "extract" /\ pc' = "aborted" /\ panicValue' = "date"

\* the previous run was ended by a date of page id that did not parse
DateAborted(id) == prevAbort = <<"date", id>>

\* the panic of decodeDate ends the run and touches neither cache nor logs
DatePanicAbortsKeepsFiles ==
    /\ [][DatePanicStep => cache' = cache /\ logs' = logs /\ UNCHANGED <<toVisit, seen, visits>>]_vars
    /\ [][pc = "aborted" => pc' = "loop" /\ run' = run + 1]_vars

\* C20 as claimed: a date that does not parse aborts the run and leaves the
\* cache alone, and a following run with caching enabled ends aborted on the
\* same identifier, read from the cache, without a call of the source for it.
C20_NextRunAbortsOnSameId ==
    /\ DatePanicAbortsKeepsFiles
    /\ [](\A id \in IDs :
            (DateAborted(id) /\ useCache /\ pc \in {"done", "aborted"}) =>
                /\ pc = "aborted"
                /\ panicValue = "date"
                /\ cur = id
                /\ origin = "cache"
                /\ \A i \in 1..Len(fetched) : fetched[i] # id)

\* C20 amended: a date that does not parse aborts the run and leaves cache
\* and logs alone; in a following run with caching enabled, if the page had
\* a cache entry and the run comes to its identifier, the page is read from
\* the cache without a call of the source and the run aborts on it again.
C20_NextRunAbortsWhenReachedAndCached ==
    /\ DatePanicAbortsKeepsFiles
    /\ [](\A id \in IDs :
            (DateAborted(id) /\ useCache /\ id \in cache0 /\ cur = id
               /\ pc \in {"open", "fetch", "extract", "render", "after", "loop", "done", "aborted"}) =>
                /\ pc \in {"extract", "aborted"}
                /\ pc = "aborted" => panicValue = "date"
                /\ origin = "cache"
                /\ \A i \in 1..Len(fetched) : fetched[i] # id)

\* the first run fetched page AAAA, cached it and was ended by its date; the
\* second run read it from the cache and was ended by it again
C20_Witness ==
    /\ run = 2
    /\ DateAborted(IdA)
    /\ useCache
    /\ IdA \in fetchedOK
    /\ pc = "aborted"
    /\ panicValue = "date"
    /\ cur = IdA
    /\ origin = "cache"
    /\ fetched = <<>>

====
